---------------------------- MODULE Spec2Model ----------------------------
(***************************************************************************)
(* Model of src/app.py (StockApp): the indicator computations              *)
(* calculate_rsi / calculate_bbands, the selectors get_mav /               *)
(* get_indicators, and the load_data / plot_data handlers acting on the    *)
(* Tk canvas frame.                                                        *)
(*                                                                         *)
(* Numbers.  pandas works on IEEE doubles; the model uses exact rationals  *)
(* extended with the two IEEE special values the code can produce:         *)
(*   [k |-> "num", n, d]   the rational n/d, d > 0, in lowest terms        *)
(*   [k |-> "inf", n, d]   +infinity (n = 1) or -infinity (n = -1)         *)
(*   [k |-> "nan", n, d]   not-a-number, pandas' "no value" marker         *)
(* Rounding error and the sign of a floating-point zero are not modelled;  *)
(* x/(+0) and x/(-0) differ only in the sign of the infinity, and both     *)
(* signs are carried through the RSI formula below.                        *)
(*                                                                         *)
(* Indices.  Python position i (0-based) is TLA+ position i+1.             *)
(*                                                                         *)
(* Environment.  yf.Ticker(symbol).history(...) either raises or returns a *)
(* price table, of which only the Close column is read; mpf.plot either    *)
(* returns a figure or raises.  The message boxes are modal: while one is  *)
(* open load_data is blocked in it and no other handler runs.  The         *)
(* interval combobox only feeds the fetch, and on_close only ends the      *)
(* event loop; neither is part of the state below.                         *)
(***************************************************************************)
EXTENDS Integers, Sequences, FiniteSets

VARIABLES
    series,        \* pure specifications: the Close column handed to an indicator
    ret,           \* pure specifications: the handler indicator call and its result
    symbol_var,    \* StockApp.symbol_var
    toggles,       \* the seven BooleanVars show_volume .. show_ma200
    canvas_frame,  \* children of StockApp.canvas_frame, in creation order
    handler        \* where load_data stands: idle, or blocked in a message box

vars == <<series, ret, symbol_var, toggles, canvas_frame, handler>>

-----------------------------------------------------------------------------
(* Bounds of the model *)

MaxLen == 4        \* longest Close series handed to an indicator
MaxPrice == 3      \* Close prices range over 1..MaxPrice (and NaN)
MaxPeriod == 3     \* calculate_rsi periods range over 1..MaxPeriod
MaxWindow == 3     \* calculate_bbands windows range over 1..MaxWindow

(* Program constants *)

DefaultPeriod == 14
DefaultWindow == 20
DefaultNoOfStd == 2

-----------------------------------------------------------------------------
(* Extended rational arithmetic (the float operations the code uses) *)

Abs(x) == IF x < 0 THEN -x ELSE x

Max(a, b) == IF a >= b THEN a ELSE b

RECURSIVE GCD(_, _)
GCD(a, b) == IF b = 0 THEN a ELSE GCD(b, a % b)

NaN == [k |-> "nan", n |-> 0, d |-> 1]

Inf(sign) == [k |-> "inf", n |-> sign, d |-> 1]

\* n/d in lowest terms with a positive denominator (d # 0)
Num(n, d) ==
    LET g == GCD(Abs(n), Abs(d))
        s == IF d < 0 THEN -1 ELSE 1
    IN  [k |-> "num", n |-> (s * n) \div g, d |-> (s * d) \div g]

Float(n) == [k |-> "num", n |-> n, d |-> 1]

IsNum(a) == a.k = "num"

IsNaN(a) == a.k = "nan"

Sign(a) == IF a.n > 0 THEN 1 ELSE IF a.n < 0 THEN -1 ELSE 0

Neg(a) == IF IsNaN(a) THEN NaN ELSE [a EXCEPT !.n = -a.n]

Add(a, b) ==
    IF IsNaN(a) \/ IsNaN(b) THEN NaN
    ELSE IF a.k = "inf" /\ b.k = "inf"
         THEN IF a.n = b.n THEN a ELSE NaN
    ELSE IF a.k = "inf" THEN a
    ELSE IF b.k = "inf" THEN b
    ELSE Num(a.n * b.d + b.n * a.d, a.d * b.d)

Sub(a, b) == Add(a, Neg(b))

Mul(a, b) ==
    IF IsNaN(a) \/ IsNaN(b) THEN NaN
    ELSE IF a.k = "inf" \/ b.k = "inf"
         THEN IF Sign(a) * Sign(b) = 0 THEN NaN ELSE Inf(Sign(a) * Sign(b))
    ELSE Num(a.n * b.n, a.d * b.d)

\* IEEE division as numpy performs it: x/0 is +-inf, 0/0 and inf/inf are NaN
Div(a, b) ==
    IF IsNaN(a) \/ IsNaN(b) THEN NaN
    ELSE IF a.k = "inf"
         THEN IF b.k = "inf" THEN NaN
              ELSE Inf(IF Sign(b) < 0 THEN -a.n ELSE a.n)
    ELSE IF b.k = "inf" THEN Float(0)
    ELSE IF b.n = 0
         THEN IF a.n = 0 THEN NaN ELSE Inf(Sign(a))
    ELSE Num(a.n * b.d, a.d * b.n)

\* a < b and a > b on floats: every comparison with NaN is False
Less(a, b) ==
    /\ ~IsNaN(a)
    /\ ~IsNaN(b)
    /\ IF a.k = "inf" THEN a.n < 0 /\ ~(b.k = "inf" /\ b.n < 0)
       ELSE IF b.k = "inf" THEN b.n > 0
       ELSE a.n * b.d < b.n * a.d

Greater(a, b) == Less(b, a)

RECURSIVE SumOver(_, _)
SumOver(s, idx) ==
    IF idx = {} THEN Float(0)
    ELSE LET j == CHOOSE x \in idx : TRUE
         IN  Add(s[j], SumOver(s, idx \ {j}))

-----------------------------------------------------------------------------
(* pandas Series operations used by the indicators, position by position: *)
(* X(s, i) is the value at position i of the Series the operation returns  *)

\* Series.diff(1): no value at the first position
diff(s, i) == IF i = 1 THEN NaN ELSE Sub(s[i], s[i - 1])

\* Series.where(cond, 0): keep the value where cond holds, else 0
where(cond, value) == IF cond THEN value ELSE Float(0)

\* the trailing window of a rolling operation ending at position i
Trailing(window, i) == Max(1, i - window + 1)..i

\* the positions of a window that hold a value
Observed(vals) == {j \in DOMAIN vals : ~IsNaN(vals[j])}

mean_of(vals, obs, min_periods) ==
    IF Cardinality(obs) >= min_periods /\ Cardinality(obs) > 0
    THEN Div(SumOver(vals, obs), Float(Cardinality(obs)))
    ELSE NaN

\* Series.rolling(window, min_periods).mean() at one position; vals holds
\* the Series' values over the trailing window ending there
rolling_mean(vals, min_periods) == mean_of(vals, Observed(vals), min_periods)

squared_deviations(vals, obs, mean) ==
    [j \in obs |-> Mul(Sub(vals[j], mean), Sub(vals[j], mean))]

var_of(vals, obs, min_periods, ddof) ==
    IF Cardinality(obs) >= min_periods /\ Cardinality(obs) > ddof
    THEN Div(SumOver(squared_deviations(vals, obs, mean_of(vals, obs, 1)), obs),
             Float(Cardinality(obs) - ddof))
    ELSE NaN

\* Series.rolling(window, min_periods).var(ddof) at one position
rolling_var(vals, min_periods, ddof) ==
    var_of(vals, Observed(vals), min_periods, ddof)

\* sqrt of a variance, kept exact as the radicand: [k |-> "sqrt"] is sqrt(n/d)
sqrt(v) ==
    IF IsNaN(v) \/ Sign(v) < 0 THEN NaN
    ELSE IF v.k = "inf" THEN v
    ELSE [k |-> "sqrt", n |-> v.n, d |-> v.d]

\* Series.rolling(window, min_periods).std(ddof): the square root of the variance
rolling_std(vals, min_periods, ddof) == sqrt(rolling_var(vals, min_periods, ddof))

\* a standard deviation times a whole number c >= 0: c*sqrt(v) = sqrt(c*c*v)
scale_std(sd, c) ==
    IF sd.k = "sqrt"
    THEN [Num(sd.n * c * c, sd.d) EXCEPT !.k = "sqrt"]
    ELSE Mul(sd, Float(c))

\* mean + sign * (scaled standard deviation), kept exact as mean and radicand
band_value(mean, sd, sign) ==
    IF IsNaN(mean) \/ IsNaN(sd) THEN NaN
    ELSE IF sd.k = "sqrt"
         THEN [k |-> "surd", n |-> mean.n, d |-> mean.d,
               sign |-> sign, rn |-> sd.n, rd |-> sd.d]
    ELSE Add(mean, Mul(sd, Float(sign)))

-----------------------------------------------------------------------------
(* StockApp.calculate_rsi, lines 268-274 *)

rsi_delta(close, i) == diff(close, i)

rsi_gain(close, i) ==
    where(Greater(rsi_delta(close, i), Float(0)), rsi_delta(close, i))

rsi_loss(close, i) ==
    Neg(where(Less(rsi_delta(close, i), Float(0)), rsi_delta(close, i)))

\* variant: a textbook fixed window, min_periods = period
rsi_avg_gain_full_window(close, period, i) ==
    rolling_mean([j \in Trailing(period, i) |-> rsi_gain(close, j)], period)

rsi_avg_gain(close, period, i) ==
    rolling_mean([j \in Trailing(period, i) |-> rsi_gain(close, j)], 1)

rsi_avg_loss(close, period, i) ==
    rolling_mean([j \in Trailing(period, i) |-> rsi_loss(close, j)], 1)

\* variant: the 0/0 ratio replaced by 0, as rs.fillna(0) would
fill_zero(a) == IF IsNaN(a) THEN Float(0) ELSE a

rsi_rs_filled(close, period, i) ==
    fill_zero(Div(rsi_avg_gain(close, period, i), rsi_avg_loss(close, period, i)))

rsi_rs(close, period, i) ==
    Div(rsi_avg_gain(close, period, i), rsi_avg_loss(close, period, i))

\* variant: the formula without the 1 + in the denominator
rsi_formula_no_one(rs) == Sub(Float(100), Div(Float(100), rs))

rsi_formula(rs) == Sub(Float(100), Div(Float(100), Add(Float(1), rs)))

calculate_rsi(close, period) ==
    [i \in 1..Len(close) |-> rsi_formula(rsi_rs(close, period, i))]

(* StockApp.calculate_bbands, lines 296-300 *)

bb_rolling_mean(close, window, i) ==
    rolling_mean([j \in Trailing(window, i) |-> close[j]], window)

\* variant: the population standard deviation, ddof = 0
bb_rolling_std_population(close, window, i) ==
    rolling_std([j \in Trailing(window, i) |-> close[j]], window, 0)

\* pandas' default for std is the sample standard deviation, ddof = 1
bb_rolling_std(close, window, i) ==
    rolling_std([j \in Trailing(window, i) |-> close[j]], window, 1)

bb_upper_band(close, window, no_of_std, i) ==
    band_value(bb_rolling_mean(close, window, i),
               scale_std(bb_rolling_std(close, window, i), no_of_std), 1)

bb_lower_band(close, window, no_of_std, i) ==
    band_value(bb_rolling_mean(close, window, i),
               scale_std(bb_rolling_std(close, window, i), no_of_std), -1)

calculate_bbands(close, window, no_of_std) ==
    [Upper |-> [i \in 1..Len(close) |-> bb_upper_band(close, window, no_of_std, i)],
     Lower |-> [i \in 1..Len(close) |-> bb_lower_band(close, window, no_of_std, i)]]

-----------------------------------------------------------------------------
(* StockApp.get_mav, lines 217-226 *)

None == [none |-> TRUE, list |-> <<>>]

List(l) == [none |-> FALSE, list |-> l]

\* Python truthiness of a list-or-None value: None and [] are both falsy
Truthy(v) == ~v.none /\ Len(v.list) > 0

append_if(l, flag, x) == IF flag THEN Append(l, x) ELSE l

\* variant: return mav_values, an empty list when nothing is selected
get_mav_empty_list(t) ==
    List(append_if(append_if(append_if(append_if(<<>>, t.ma5, 5),
                                       t.ma20, 20), t.ma60, 60), t.ma200, 200))

get_mav(t) ==
    LET m5 == append_if(<<>>, t.ma5, 5)
        m20 == append_if(m5, t.ma20, 20)
        m60 == append_if(m20, t.ma60, 60)
        mav_values == append_if(m60, t.ma200, 200)
    IN  IF Len(mav_values) > 0 THEN List(mav_values) ELSE None

(* StockApp.get_indicators, lines 241-252 *)

\* mplfinance places an addplot made without panel= on panel 0, the price panel
main_panel == "main"

make_addplot(values, panel, color, ylabel) ==
    [data |-> values, panel |-> panel, color |-> color, ylabel |-> ylabel]

rsi_addplots(t, data) ==
    IF t.rsi
    THEN <<make_addplot(calculate_rsi(data.Close, DefaultPeriod),
                        "lower", "blue", "RSI")>>
    ELSE <<>>

bbands_addplots(t, data) ==
    IF t.bbands
    THEN LET bbands == calculate_bbands(data.Close, DefaultWindow, DefaultNoOfStd)
         IN  <<make_addplot(bbands.Upper, main_panel, "red", ""),
               make_addplot(bbands.Lower, main_panel, "red", "")>>
    ELSE <<>>

\* variant: the Bollinger block placed before the RSI block
get_indicators_bands_first(t, data) ==
    bbands_addplots(t, data) \o rsi_addplots(t, data)

get_indicators(t, data) == rsi_addplots(t, data) \o bbands_addplots(t, data)

\* the indicator functions get_indicators invokes, in call order
indicator_calls(t) ==
    (IF t.rsi THEN <<"calculate_rsi">> ELSE <<>>)
        \o (IF t.bbands THEN <<"calculate_bbands">> ELSE <<>>)

-----------------------------------------------------------------------------
(* StockApp.plot_data, lines 166-201 *)

NoExc == [type |-> "", msg |-> ""]

RenderError == [type |-> "RenderError", msg |-> "plot failed"]

\* variant: the canvas frame is not cleared
destroy_children_keep(frame) == frame

\* lines 167-168: every child of the canvas frame is destroyed
destroy_children(frame) == <<>>

\* lines 175-186: the keyword arguments of mpf.plot
plot_params(t, data, mav_values, addplots) ==
    IF Truthy(mav_values)
    THEN [data |-> data, type |-> "candle", style |-> "charles",
          volume |-> t.volume, addplot |-> addplots, returnfig |-> TRUE,
          figsize |-> <<10, 6>>, mav |-> mav_values.list]
    ELSE [data |-> data, type |-> "candle", style |-> "charles",
          volume |-> t.volume, addplot |-> addplots, returnfig |-> TRUE,
          figsize |-> <<10, 6>>]

\* lines 192-201: the canvas widget and then the toolbar become children
chart_widgets(frame, fig) ==
    frame \o <<[kind |-> "canvas", fig |-> fig], [kind |-> "toolbar", fig |-> fig]>>

\* lines 189-201: mpf.plot and the widgets built from its figure;
\* renders = FALSE: mpf.plot raises instead of returning a figure
draw(cleared, params, renders) ==
    IF renders
    THEN [frame |-> chart_widgets(cleared, params), raised |-> NoExc]
    ELSE [frame |-> cleared, raised |-> RenderError]

plot_data(frame, t, data, renders) ==
    [drawn |-> draw(destroy_children(frame),
                    plot_params(t, data, get_mav(t), get_indicators(t, data)),
                    renders),
     calls |-> <<"plot_data", "get_mav", "get_indicators">>
                   \o indicator_calls(t) \o <<"mpf.plot">>]

-----------------------------------------------------------------------------
(* StockApp.load_data, lines 134-148 *)

Symbols == {"", "AAPL"}

S(x) == [i \in 1..Len(x) |-> Float(x[i])]

\* what yf.Ticker(symbol).history(...) can do: raise, or return a price table
FetchError == [type |-> "ConnectionError", msg |-> "fetch failed"]

Histories == {<<>>, S(<<2, 3, 1>>)}

FetchResults ==
    {[status |-> "raised", Close |-> <<>>]}
        \cup {[status |-> "frame", Close |-> h] : h \in Histories}

NotFetched == [status |-> "skipped", Close |-> <<>>]

\* variant: the emptiness check is missing
data_empty_never(data) == FALSE

\* line 144: data.empty
data_empty(data) == Len(data.Close) = 0

EmptySeries == [type |-> "ValueError", msg |-> "No data found for this symbol."]

\* the handler is not running
Idle == [pc |-> "idle", title |-> "", message |-> "", raised |-> NoExc,
         propagated |-> NoExc, fetched |-> NotFetched, calls |-> <<>>]

\* variant: the exception is re-raised instead of shown
except_handler_reraise(e) ==
    [pc |-> "unhandled", title |-> "", message |-> "", propagated |-> e]

\* lines 147-148: except Exception as e: messagebox.showerror("Error", str(e))
except_handler(e) ==
    [pc |-> "showerror", title |-> "Error", message |-> e.msg, propagated |-> NoExc]

\* lines 142-146: the body of the try statement
plotted(p) ==
    [frame |-> p.drawn.frame, raised |-> p.drawn.raised,
     calls |-> <<"history">> \o p.calls]

\* variant: the canvas frame is cleared before the series is checked
try_body_clear_first(frame, t, fetch, renders) ==
    IF fetch.status = "raised"
    THEN [frame |-> destroy_children(frame), raised |-> FetchError,
          calls |-> <<"history">>]
    ELSE IF data_empty(fetch)
    THEN [frame |-> destroy_children(frame), raised |-> EmptySeries,
          calls |-> <<"history">>]
    ELSE plotted(plot_data(frame, t, [Close |-> fetch.Close], renders))

try_body(frame, t, fetch, renders) ==
    IF fetch.status = "raised"
    THEN [frame |-> frame, raised |-> FetchError, calls |-> <<"history">>]
    ELSE IF data_empty(fetch)
    THEN [frame |-> frame, raised |-> EmptySeries, calls |-> <<"history">>]
    ELSE plotted(plot_data(frame, t, [Close |-> fetch.Close], renders))

\* lines 142-148: the try statement with its except clause
try_except(r, h, fetch) ==
    IF r.raised = NoExc
    THEN [frame |-> r.frame, handler |-> Idle]
    ELSE [frame |-> r.frame,
          handler |-> [pc |-> h.pc, title |-> h.title, message |-> h.message,
                       raised |-> r.raised, propagated |-> h.propagated,
                       fetched |-> fetch, calls |-> r.calls]]

raised_in(r) == r.raised

\* the result of clicking "Load Data": the canvas frame afterwards, and where
\* the handler stands (returned, or blocked in a modal message box)
load_data(symbol, frame, t, fetch, renders) ==
    IF symbol = ""
    THEN [frame |-> frame,
          handler |-> [Idle EXCEPT !.pc = "showwarning", !.title = "Input Error",
                                   !.message = "Please enter a stock symbol."]]
    ELSE try_except(try_body(frame, t, fetch, renders),
                    except_handler(raised_in(try_body(frame, t, fetch, renders))),
                    fetch)

-----------------------------------------------------------------------------
(* The application: its state after __init__ and its event handlers *)

NoCall == [fn |-> "none", arg |-> 0, rsi |-> <<>>,
           bb |-> [Upper |-> <<>>, Lower |-> <<>>]]

\* lines 42-48
InitToggles ==
    [volume |-> TRUE, rsi |-> FALSE, bbands |-> FALSE,
     ma5 |-> FALSE, ma20 |-> FALSE, ma60 |-> FALSE, ma200 |-> FALSE]

ToggleNames == DOMAIN InitToggles

\* lines 40-50, 84
InitApp ==
    /\ symbol_var = ""
    /\ toggles = InitToggles
    /\ canvas_frame = <<>>
    /\ handler = Idle

Init ==
    /\ series = <<>>
    /\ ret = NoCall
    /\ InitApp

\* the user edits the Symbol entry (line 70)
SetSymbol ==
    \E s \in Symbols :
        /\ handler.pc = "idle"
        /\ s # symbol_var
        /\ symbol_var' = s
        /\ UNCHANGED <<series, ret, toggles, canvas_frame, handler>>

\* the user clicks one of the seven checkbuttons (lines 101-114)
Toggle ==
    \E name \in ToggleNames :
        /\ handler.pc = "idle"
        /\ toggles' = [toggles EXCEPT ![name] = ~toggles[name]]
        /\ UNCHANGED <<series, ret, symbol_var, canvas_frame, handler>>

Apply(r) ==
    /\ canvas_frame' = r.frame
    /\ handler' = r.handler

LoadDataWith(fetch, renders) ==
    /\ handler.pc = "idle"
    /\ UNCHANGED <<series, ret, symbol_var, toggles>>
    /\ Apply(load_data(symbol_var, canvas_frame, toggles, fetch, renders))

\* the user clicks "Load Data" (line 73)
LoadData ==
    \E fetch \in FetchResults, renders \in BOOLEAN : LoadDataWith(fetch, renders)

\* the user closes the modal message box; load_data returns (lines 140, 148)
Dismiss ==
    /\ handler.pc # "idle"
    /\ handler' = Idle
    /\ UNCHANGED <<series, ret, symbol_var, toggles, canvas_frame>>

Next == SetSymbol \/ Toggle \/ LoadData \/ Dismiss

Spec == Init /\ [][Next]_vars

-----------------------------------------------------------------------------
(* Properties of the application, checked under Spec *)

EmptyFetched ==
    handler.fetched.status = "frame" /\ Len(handler.fetched.Close) = 0

Called(name) == \E i \in 1..Len(handler.calls) : handler.calls[i] = name

\* C1: a load whose fetched series has no records fails with the empty-series
\* error, and calls neither plot_data, get_indicators, calculate_rsi,
\* calculate_bbands nor mpf.plot, whatever the toggles are.
C1_EmptySeriesFails ==
    EmptyFetched =>
        /\ handler.pc = "showerror"
        /\ handler.raised = EmptySeries
        /\ handler.message = "No data found for this symbol."
        /\ handler.calls = <<"history">>
        /\ ~Called("calculate_rsi")
        /\ ~Called("calculate_bbands")

\* an empty series fetched while both indicators are switched on
C1_Witness ==
    /\ EmptyFetched
    /\ handler.pc = "showerror"
    /\ toggles.rsi
    /\ toggles.bbands
    /\ toggles.ma20

MaWindows == <<5, 20, 60, 200>>

MaEnabled(t, w) ==
    \/ w = 5 /\ t.ma5
    \/ w = 20 /\ t.ma20
    \/ w = 60 /\ t.ma60
    \/ w = 200 /\ t.ma200

\* the enabled window lengths in the order 5, 20, 60, 200
EnabledWindows(t) == SelectSeq(MaWindows, LAMBDA w : MaEnabled(t, w))

Charts == {i \in 1..Len(canvas_frame) : canvas_frame[i].kind = "canvas"}

\* C2: for each of the 16 combinations of ma5, ma20, ma60, ma200 get_mav
\* returns the enabled window lengths in the order 5, 20, 60, 200, and None
\* (never an empty list) when none is enabled; the plot parameters then have
\* no 'mav' entry, and a displayed chart never carries an empty 'mav' list.
C2_MavSelection ==
    /\ get_mav(toggles) = IF EnabledWindows(toggles) = <<>>
                          THEN None
                          ELSE List(EnabledWindows(toggles))
    /\ \A h \in Histories :
          LET params == plot_params(toggles, [Close |-> h], get_mav(toggles), <<>>)
          IN  IF EnabledWindows(toggles) = <<>>
              THEN "mav" \notin DOMAIN params
              ELSE "mav" \in DOMAIN params /\ params.mav = EnabledWindows(toggles)
    /\ \A i \in Charts :
          "mav" \in DOMAIN canvas_frame[i].fig => Len(canvas_frame[i].fig.mav) > 0

\* the selection [5, 20, 200] of the specification's example, next to a chart
\* that was plotted with no moving average enabled
C2_Witness ==
    /\ toggles.ma5 /\ toggles.ma20 /\ ~toggles.ma60 /\ toggles.ma200
    /\ get_mav(toggles) = List(<<5, 20, 200>>)
    /\ Charts # {}
    /\ \A i \in Charts : "mav" \notin DOMAIN canvas_frame[i].fig

\* the panels of an overlay list: RSI (lower panel) first when rsi is on,
\* then Bollinger Upper and Lower (price panel) when bbands is on
OverlayPanels(rsi, bbands) ==
    (IF rsi THEN <<"lower">> ELSE <<>>)
        \o (IF bbands THEN <<main_panel, main_panel>> ELSE <<>>)

\* the values they show for a Close series
OverlayValues(rsi, bbands, close) ==
    (IF rsi THEN <<calculate_rsi(close, DefaultPeriod)>> ELSE <<>>)
        \o (IF bbands
            THEN <<calculate_bbands(close, DefaultWindow, DefaultNoOfStd).Upper,
                   calculate_bbands(close, DefaultWindow, DefaultNoOfStd).Lower>>
            ELSE <<>>)

PanelsOf(o) == [i \in 1..Len(o) |-> o[i].panel]

ValuesOf(o) == [i \in 1..Len(o) |-> o[i].data]

IsOverlayList(o, rsi, bbands, close) ==
    /\ PanelsOf(o) = OverlayPanels(rsi, bbands)
    /\ ValuesOf(o) = OverlayValues(rsi, bbands, close)
    /\ rsi => o[1].ylabel = "RSI"

IndicatorsOnly(t) ==
    [volume |-> FALSE, rsi |-> t.rsi, bbands |-> t.bbands,
     ma5 |-> FALSE, ma20 |-> FALSE, ma60 |-> FALSE, ma200 |-> FALSE]

\* C3: for every non-empty series and every toggle combination get_indicators
\* builds exactly (1 if rsi) + (2 if bbands) descriptors in the order RSI,
\* Bollinger Upper, Bollinger Lower, RSI on the lower panel and both bands on
\* the price panel; volume and the ma* toggles do not change the list; every
\* displayed chart carries such a list.
C3_OverlayList ==
    /\ \A h \in Histories \ {<<>>} :
          LET addplots == get_indicators(toggles, [Close |-> h])
          IN  /\ IsOverlayList(addplots, toggles.rsi, toggles.bbands, h)
              /\ addplots = get_indicators(IndicatorsOnly(toggles), [Close |-> h])
    /\ \A i \in Charts :
          \E rsi \in BOOLEAN, bbands \in BOOLEAN :
              PanelsOf(canvas_frame[i].fig.addplot) = OverlayPanels(rsi, bbands)

\* the specification's example: rsi, bbands and ma5 on give three descriptors
\* and the window list [5] in the displayed chart
C3_Witness ==
    /\ toggles.rsi /\ toggles.bbands /\ toggles.ma5
    /\ ~toggles.ma20 /\ ~toggles.ma60 /\ ~toggles.ma200
    /\ Len(canvas_frame) = 2
    /\ Len(canvas_frame[1].fig.addplot) = 3
    /\ canvas_frame[1].fig.addplot[1].panel = "lower"
    /\ canvas_frame[1].fig.addplot[3].panel = main_panel
    /\ "mav" \in DOMAIN canvas_frame[1].fig
    /\ canvas_frame[1].fig.mav = <<5>>

Failed == handler.raised # NoExc

AtMostOneChart ==
    /\ Cardinality(Charts) <= 1
    /\ Cardinality({i \in 1..Len(canvas_frame) :
                        canvas_frame[i].kind = "toolbar"}) <= 1
    /\ Len(canvas_frame) <= 2

Plottable(fetch) ==
    symbol_var # "" /\ fetch.status = "frame" /\ Len(fetch.Close) > 0

\* a load that plots leaves exactly the canvas and the toolbar of a figure
\* made from the series it fetched and the toggle values at that load
FreshChart(fetch) ==
    /\ Len(canvas_frame') = 2
    /\ canvas_frame'[1].kind = "canvas"
    /\ canvas_frame'[2].kind = "toolbar"
    /\ canvas_frame'[2].fig = canvas_frame'[1].fig
    /\ canvas_frame'[1].fig.data.Close = fetch.Close
    /\ canvas_frame'[1].fig.volume = toggles.volume
    /\ IsOverlayList(canvas_frame'[1].fig.addplot, toggles.rsi, toggles.bbands,
                     fetch.Close)
    /\ IF EnabledWindows(toggles) = <<>>
       THEN "mav" \notin DOMAIN canvas_frame'[1].fig
       ELSE /\ "mav" \in DOMAIN canvas_frame'[1].fig
            /\ canvas_frame'[1].fig.mav = EnabledWindows(toggles)

\* C9: after every step the canvas frame holds at most one canvas and one
\* toolbar, and every load that plots replaces whatever was displayed by a
\* chart made only from that load's series and toggle values.
C9_OneFreshChart ==
    [][/\ AtMostOneChart'
       /\ \A fetch \in FetchResults :
             (Plottable(fetch) /\ LoadDataWith(fetch, TRUE)) => FreshChart(fetch)
      ]_vars

\* a chart on display that differs from what the current toggles would give,
\* while a later load has been rejected
C9_Witness ==
    /\ Len(canvas_frame) = 2
    /\ canvas_frame[1].kind = "canvas"
    /\ canvas_frame[2].kind = "toolbar"
    /\ canvas_frame[1].fig.volume # toggles.volume
    /\ Len(canvas_frame[1].fig.addplot) = 3
    /\ ~toggles.rsi
    /\ handler.pc = "showerror"

Rejected(fetch) ==
    \/ symbol_var = ""
    \/ fetch.status = "raised"
    \/ fetch.status = "frame" /\ Len(fetch.Close) = 0

\* C10: a load rejected before plotting (empty symbol, failed fetch, empty
\* series) changes neither the canvas frame nor the toggles; the canvas frame
\* changes only in a load whose series passed the emptiness check.
C10_RejectedLoadKeepsChart ==
    [][/\ \A fetch \in FetchResults, renders \in BOOLEAN :
             (Rejected(fetch) /\ LoadDataWith(fetch, renders))
                 => (canvas_frame' = canvas_frame /\ toggles' = toggles)
       /\ canvas_frame' # canvas_frame =>
             \E fetch \in FetchResults, renders \in BOOLEAN :
                 Plottable(fetch) /\ LoadDataWith(fetch, renders)
      ]_vars

\* the chart of an earlier load is still displayed while the error box of a
\* load with an empty series is open
C10_Witness ==
    /\ Len(canvas_frame) = 2
    /\ handler.pc = "showerror"
    /\ handler.raised = EmptySeries

-----------------------------------------------------------------------------
(* Indicator specification: one indicator call on an input drawn from the  *)
(* bounded set of Close series                                             *)

Closes == {NaN} \cup {Float(p) : p \in 1..MaxPrice}

AllSeries == UNION {[1..n -> Closes] : n \in 0..MaxLen}

InitIndicator ==
    /\ series \in AllSeries
    /\ ret = NoCall
    /\ InitApp

CallRsi ==
    \E period \in 1..MaxPeriod :
        /\ ret = NoCall
        /\ ret' = [NoCall EXCEPT !.fn = "calculate_rsi", !.arg = period,
                                 !.rsi = calculate_rsi(series, period)]
        /\ UNCHANGED <<series, symbol_var, toggles, canvas_frame, handler>>

CallBbands ==
    \E window \in 1..MaxWindow :
        /\ ret = NoCall
        /\ ret' = [NoCall EXCEPT !.fn = "calculate_bbands", !.arg = window,
                                 !.bb = calculate_bbands(series, window, DefaultNoOfStd)]
        /\ UNCHANGED <<series, symbol_var, toggles, canvas_frame, handler>>

NextIndicator == CallRsi \/ CallBbands

SpecIndicator == InitIndicator /\ [][NextIndicator]_vars

-----------------------------------------------------------------------------
(* Properties of calculate_rsi, checked under SpecIndicator *)

IsRsiCall == ret.fn = "calculate_rsi"

\* the trailing window ending at position i: the last min(i, period) positions
Window(i, period) == Max(1, i - period + 1)..i

Defined(i) == ~IsNaN(series[i])

\* a price fall, a price rise between positions j-1 and j of the input
Falls(j) == j > 1 /\ Defined(j) /\ Defined(j - 1) /\ Less(series[j], series[j - 1])

Rises(j) == j > 1 /\ Defined(j) /\ Defined(j - 1) /\ Greater(series[j], series[j - 1])

StrictlyIncreasing ==
    /\ \A j \in 1..Len(series) : Defined(j)
    /\ \A j \in 2..Len(series) : Rises(j)

InUnitRange(v) == IsNum(v) /\ 0 <= v.n /\ v.n <= 100 * v.d

\* C5: every defined value returned by calculate_rsi lies in [0, 100], for
\* every series and period, including the positions before a full period of
\* samples and the positions where the average loss is zero.
C5_RsiBounded ==
    IsRsiCall =>
        \A i \in 1..Len(ret.rsi) : ~IsNaN(ret.rsi[i]) => InUnitRange(ret.rsi[i])

\* a call with period >= 2 that yields, before a full period of samples, one
\* value strictly inside (0, 100) and one value equal to 100
C5_Witness ==
    /\ IsRsiCall
    /\ ret.arg >= 2
    /\ \E i \in 1..Len(ret.rsi) :
          /\ i < ret.arg
          /\ ret.rsi[i] = Float(100)
    /\ \E i \in 1..Len(ret.rsi) :
          /\ i <= ret.arg
          /\ IsNum(ret.rsi[i])
          /\ 0 < ret.rsi[i].n
          /\ ret.rsi[i].n < 100 * ret.rsi[i].d

\* C6: wherever the trailing window holds no fall and at least one rise
\* (average loss 0, average gain > 0) the RSI is exactly 100; for a strictly
\* increasing series of length n the result has length n, is undefined at the
\* first position and is 100 at every later one.
C6_RsiHundredWithoutLoss ==
    IsRsiCall =>
        /\ Len(ret.rsi) = Len(series)
        /\ \A i \in 1..Len(series) :
              ((\A j \in Window(i, ret.arg) : ~Falls(j))
                  /\ (\E j \in Window(i, ret.arg) : Rises(j)))
                  => ret.rsi[i] = Float(100)
        /\ (StrictlyIncreasing /\ Len(series) > 0) =>
              /\ IsNaN(ret.rsi[1])
              /\ \A i \in 2..Len(series) : ret.rsi[i] = Float(100)

\* a strictly increasing series shorter than the period, so that every value
\* 100 is produced before a full period of samples exists
C6_Witness ==
    /\ IsRsiCall
    /\ StrictlyIncreasing
    /\ Len(series) >= 3
    /\ ret.arg >= Len(series)
    /\ ret.rsi[Len(series)] = Float(100)

\* C7: wherever the trailing window holds no price movement at all (both
\* averages 0; always so at the first position) the RSI is the no-value
\* marker, never a number.
C7_RsiUndefinedWhenFlat ==
    IsRsiCall =>
        \A i \in 1..Len(series) :
            (\A j \in Window(i, ret.arg) : ~Falls(j) /\ ~Rises(j))
                => IsNaN(ret.rsi[i])

\* a flat window after the first position, in a series that also moved
C7_Witness ==
    /\ IsRsiCall
    /\ \E i \in 2..Len(series) :
          /\ \A j \in 1..i : Defined(j)
          /\ \A j \in Window(i, ret.arg) : ~Falls(j) /\ ~Rises(j)
          /\ IsNaN(ret.rsi[i])
          /\ \E j \in 1..(i - 1) : IsNum(ret.rsi[j])

-----------------------------------------------------------------------------
(* Properties of calculate_bbands, checked under SpecIndicator *)

IsBbandsCall == ret.fn = "calculate_bbands"

AllDefined == \A j \in 1..Len(series) : Defined(j)

Aligned ==
    /\ Len(ret.bb.Upper) = Len(series)
    /\ Len(ret.bb.Lower) = Len(series)

BandsUndefinedAt(i) == IsNaN(ret.bb.Upper[i]) /\ IsNaN(ret.bb.Lower[i])

BandsDefinedAt(i) == ~IsNaN(ret.bb.Upper[i]) /\ ~IsNaN(ret.bb.Lower[i])

\* C8 as stated: for every window length w both bands are undefined before
\* position w and defined from position w on.
C8_AsStated ==
    (IsBbandsCall /\ AllDefined) =>
        /\ Aligned
        /\ \A i \in 1..Len(series) :
              IF i < ret.arg THEN BandsUndefinedAt(i) ELSE BandsDefinedAt(i)

\* C8 (amended): the statement holds for every window length w >= 2; for
\* w = 1 the sample standard deviation of a single observation has no value,
\* so both bands are undefined at every position.
C8_BandsDefinedFromWindow ==
    (IsBbandsCall /\ AllDefined) =>
        /\ Aligned
        /\ \A i \in 1..Len(series) :
              IF i < ret.arg \/ ret.arg = 1
              THEN BandsUndefinedAt(i)
              ELSE BandsDefinedAt(i)

\* a window of at least 2 on a longer series: undefined and defined positions
C8_Witness ==
    /\ IsBbandsCall
    /\ AllDefined
    /\ ret.arg >= 2
    /\ Len(series) > ret.arg
    /\ BandsUndefinedAt(ret.arg - 1)
    /\ BandsDefinedAt(ret.arg)
    /\ BandsDefinedAt(Len(series))

=============================================================================
